---- MODULE Spec2Model ----
(***************************************************************************)
(* Model of the inlining pass of zokrates_core                             *)
(* (src/zokrates_core/src/static_analysis/inline.rs).                      *)
(*                                                                         *)
(* The typed AST is represented by records carrying a "tag" field.  The    *)
(* Inliner struct is the record `inliner`; every method that takes         *)
(* `&mut self` is an operator that takes the Inliner record `st` and       *)
(* returns a record [st |-> the Inliner afterwards, v |-> the value].      *)
(* A Rust panic (unwrap on None, panic!, unreachable!) is recorded in the  *)
(* field `panic` of the Inliner record; once it is set no operator has any *)
(* further effect, which is how unwinding is represented.                  *)
(***************************************************************************)
EXTENDS Integers, Sequences, FiniteSets, TLC

\* ------------------------------------------------------------------ bounds
\* largest value given to a parameter of main when programs are evaluated
MaxInput == 2
\* number of invocations of inline on the same input program
MaxInvocations == 2
\* how many activations of try_inline_call for one function the model follows
\* inside each other: entering a function with that many activations of it
\* still open is followed no further (see Diverges)
MaxRepeats == 1

\* ------------------------------------------------------------ typed AST
FieldElement == "field"
FieldElementArray == "field[2]"

field_element(id) == [id |-> id, ty |-> FieldElement]
field_array(id, size) == [id |-> id, ty |-> FieldElementArray]

Signature(ins, outs) == [inputs |-> ins, outputs |-> outs]
FunctionKey(id, sig) == [id |-> id, signature |-> sig]

Number(n) == [tag |-> "Number", n |-> n]
Identifier(id) == [tag |-> "Identifier", id |-> id]
Add(l, r) == [tag |-> "Add", l |-> l, r |-> r]
Mult(l, r) == [tag |-> "Mult", l |-> l, r |-> r]
FunctionCall(key, args) == [tag |-> "FunctionCall", key |-> key, args |-> args]
Select(array, index) == [tag |-> "Select", array |-> array, index |-> index]
ArrayIdentifier(size, id) == [tag |-> "ArrayIdentifier", size |-> size, id |-> id]
ArrayFunctionCall(size, key, args) ==
    [tag |-> "ArrayFunctionCall", size |-> size, key |-> key, args |-> args]

FieldTags == {"Number", "Identifier", "Add", "Mult", "FunctionCall", "Select"}
ArrayTags == {"ArrayIdentifier", "ArrayFunctionCall"}

AssigneeIdentifier(v) == [tag |-> "Identifier", v |-> v]
AssigneeArrayElement(a, index) == [tag |-> "ArrayElement", a |-> a, index |-> index]

Return(exprs) == [tag |-> "Return", exprs |-> exprs]
Definition(a, e) == [tag |-> "Definition", a |-> a, e |-> e]
MultipleDefinition(variables, key, args, types) ==
    [tag |-> "MultipleDefinition", variables |-> variables, key |-> key,
     args |-> args, types |-> types]

Parameter(v, private) == [id |-> v, private |-> private]
TypedFunction(arguments, statements, sig) ==
    [arguments |-> arguments, statements |-> statements, signature |-> sig]

Here(function) == [kind |-> "Here", function |-> function]
There(key, module_id) == [kind |-> "There", key |-> key, module_id |-> module_id]
Flat(name, sig) == [kind |-> "Flat", name |-> name, signature |-> sig]

Last(s) == s[Len(s)]

\* ------------------------------------------------------------- BiMap
\* BiMap::insert: a pair with the same left or the same right is replaced
bimap_insert(b, l, r) == {p \in b : p[1] # l /\ p[2] # r} \cup {<<l, r>>}

bimap_contains_left(b, l) == \E p \in b : p[1] = l

bimap_get_by_left(b, l) == (CHOOSE p \in b : p[1] = l)[2]

\* ------------------------------------------------------------ Inliner
\* Beside the five fields of the struct, the record of the Inliner carries
\* what the claims observe and the code does not store: `panic` (see Panic),
\* `trace` (see CallEvent), `stack` (the open activations of try_inline_call),
\* `pushed` (every statement given to statement_buffer.extend, in order),
\* `sites` (see Site), `mints` (see Mint) and `assigned` (see Assignment).
VARIABLES
    program,      \* the TypedProgram given to inline
    pc,           \* position inside inline
    inliner,      \* the Inliner struct (with the panic flag and the call trace)
    main_key,     \* the key found for main
    main,         \* the function found for main
    arguments,    \* main's parameters rewritten so far
    statements,   \* main's statements rewritten so far
    output,       \* the TypedProgram returned, or NoProgram
    position,     \* how many of main's statements are rewritten
    invocation,   \* which invocation of inline on `program` this is
    previous      \* what the earlier invocations returned

vars == <<program, pc, inliner, main_key, main, arguments, statements, position, output,
          invocation, previous>>

NoPanic == "none"

Panic(st, why) == IF st.panic = NoPanic THEN [st EXCEPT !.panic = why] ELSE st

\* Not a panic: try_inline_call has entered a function while MaxRepeats
\* activations of the same function are still open.  Which statements and
\* expressions the Inliner visits depends on the module cursor and the key
\* only, so the activation just entered enters the function again, and so on
\* without end.  It is kept in the field `panic` so that, as for a panic,
\* nothing after it has an effect; `stack` is left as it was then.
Diverges == "diverges"

\* a function: a key of a module
Node(module_id, key) == [module |-> module_id, key |-> key]

\* one open activation of try_inline_call: the module the cursor names, the
\* key, and the value of the counter when it was entered
Activation(st, key) == [module |-> st.module_id, key |-> key, minted |-> st.next_var_idx]

NodeOf(activation) == Node(activation.module, activation.key)

\* the open activations of the function `key` of the current module
Open(st, key) == {i \in 1..Len(st.stack) : NodeOf(st.stack[i]) = Node(st.module_id, key)}

\* Inliner::with_modules_and_module_id_and_bijection_and_next_var_idx
with_modules_and_module_id_and_bijection_and_next_var_idx(modules, module_id, bijection, next_var_idx) ==
    [modules |-> modules,
     module_id |-> module_id,
     statement_buffer |-> <<>>,
     bijection |-> bijection,
     next_var_idx |-> next_var_idx,
     panic |-> NoPanic,
     trace |-> <<>>,
     stack |-> <<>>,
     pushed |-> <<>>,
     sites |-> <<>>,
     mints |-> <<>>,
     assigned |-> <<>>]

Digits == <<"0", "1", "2", "3", "4", "5", "6", "7", "8", "9">>

RECURSIVE to_string(_)
to_string(n) ==
    IF n < 10 THEN Digits[n + 1]
    ELSE to_string(n \div 10) \o Digits[(n % 10) + 1]

\* issue_new_name without `self.next_var_idx += 1`
issue_new_name_no_increment(st) ==
    [st |-> st, v |-> "_" \o to_string(st.next_var_idx)]

issue_new_name(st) ==
    [st |-> [st EXCEPT !.next_var_idx = @ + 1],
     v |-> "_" \o to_string(st.next_var_idx)]

\* one call of use_variable: the variable replaced, the variable minted for
\* it, and the counter before and after
Mint(st, variable, var, after) ==
    [from |-> variable, to |-> var, counter |-> st.next_var_idx, next |-> after.next_var_idx]

use_variable(st, variable) ==
    LET n == issue_new_name(st)
        var == [id |-> n.v, ty |-> variable.ty]
    IN [st |-> [n.st EXCEPT !.bijection = bimap_insert(@, variable, var),
                            !.mints = Append(@, Mint(st, variable, var, n.st))],
        v |-> var]

\* change_module that returns the current module without replacing it
change_module_stay(st, module_id) == [st |-> st, v |-> st.module_id]

change_module(st, module_id) ==
    [st |-> [st EXCEPT !.module_id = module_id], v |-> st.module_id]

\* fold_parameter that makes every parameter private
fold_parameter_private(st, p) ==
    LET u == use_variable(st, p.id)
    IN [st |-> u.st, v |-> [p EXCEPT !.id = u.v, !.private = TRUE]]

fold_parameter(st, p) ==
    LET u == use_variable(st, p.id)
    IN [st |-> u.st, v |-> [p EXCEPT !.id = u.v]]

\* a read of a variable the bijection does not bind, as an entry of the trace
Unbound(st, v) ==
    [key |-> FunctionKey(v.id, Signature(<<>>, <<v.ty>>)), kind |-> "Unbound",
     before |-> st.module_id, after |-> st.module_id, outcome |-> "miss",
     returns |-> 0, ends_in_return |-> FALSE,
     minted |-> st.next_var_idx, buffered |-> Len(st.statement_buffer),
     stack |-> st.stack, args |-> <<>>, result |-> <<>>, params |-> <<>>, body |-> <<>>,
     minted_before |-> st.next_var_idx,
     buffer_before |-> st.statement_buffer, buffer_after |-> st.statement_buffer,
     bijection_before |-> st.bijection, bijection_after |-> st.bijection]

\* fold_variable with unwrap_or(v): an unbound variable is left as it is
fold_variable_unwrap_or(st, v) ==
    IF bimap_contains_left(st.bijection, v)
    THEN [st |-> st, v |-> bimap_get_by_left(st.bijection, v)]
    ELSE [st |-> [st EXCEPT !.trace = Append(@, Unbound(st, v))], v |-> v]

fold_variable(st, v) ==
    IF bimap_contains_left(st.bijection, v)
    THEN [st |-> st, v |-> bimap_get_by_left(st.bijection, v)]
    ELSE [st |-> Panic([st EXCEPT !.trace = Append(@, Unbound(st, v))],
                       "fold_variable: unwrap on None"),
          v |-> v]

IsReturn(s) == s.tag = "Return"

RECURSIVE partition_not_return(_)
partition_not_return(ss) ==
    IF ss = <<>> THEN <<>>
    ELSE IF IsReturn(Head(ss)) THEN partition_not_return(Tail(ss))
    ELSE <<Head(ss)>> \o partition_not_return(Tail(ss))

RECURSIVE partition_return(_)
partition_return(ss) ==
    IF ss = <<>> THEN <<>>
    ELSE IF IsReturn(Head(ss)) THEN <<Head(ss)>> \o partition_return(Tail(ss))
    ELSE partition_return(Tail(ss))

\* one entry of the call trace: what one activation of try_inline_call did,
\* from the Inliner `before` it started with to the result `r` it returned
CallEvent(key, kind, before, r, outcome, folded, expressions, function) ==
    [key |-> key, kind |-> kind, before |-> before.module_id, after |-> r.st.module_id,
     outcome |-> IF r.st.panic # NoPanic THEN "panic" ELSE outcome,
     returns |-> Len(partition_return(folded)),
     ends_in_return |-> folded # <<>> /\ IsReturn(Last(folded)),
     minted |-> r.st.next_var_idx,
     buffered |-> Len(r.st.statement_buffer),
     stack |-> before.stack, args |-> expressions, result |-> r.v,
     params |-> function.arguments, body |-> function.statements,
     minted_before |-> before.next_var_idx,
     buffer_before |-> before.statement_buffer, buffer_after |-> r.st.statement_buffer,
     bijection_before |-> before.bijection, bijection_after |-> r.st.bijection]

\* an activation that returns or panics is recorded and leaves the stack; one
\* that is still descending when the model stops following it does neither
Traced(r, key, kind, before, outcome, folded, expressions, function) ==
    IF r.st.panic = Diverges THEN r
    ELSE [r EXCEPT !.st.trace = Append(@, CallEvent(key, kind, before, r, outcome, folded,
                                                    expressions, function)),
                   !.st.stack = before.stack]

\* `self.method(arg)` inside the methods of the Inliner, which call each other
RECURSIVE self(_, _, _)


\* folder::fold_expression: dispatch on the type of the expression
fold_expression(st, e) ==
    IF e.tag \in ArrayTags THEN self(st, "fold_field_array_expression", e)
    ELSE self(st, "fold_field_expression", e)

\* expressions.into_iter().map(|e| self.fold_expression(e)).collect()
fold_expressions(st, es) ==
    IF es = <<>> THEN [st |-> st, v |-> <<>>]
    ELSE LET h == self(st, "fold_expression", Head(es))
             t == self(h.st, "fold_expressions", Tail(es))
         IN [st |-> t.st, v |-> <<h.v>> \o t.v]

\* folder::fold_field_expression: the structural rewrite of the other cases
default_fold_field_expression(st, e) ==
    CASE e.tag = "Number" -> [st |-> st, v |-> e]
      [] e.tag \in {"Add", "Mult"} ->
            LET l == self(st, "fold_field_expression", e.l)
                r == self(l.st, "fold_field_expression", e.r)
            IN [st |-> r.st, v |-> [e EXCEPT !.l = l.v, !.r = r.v]]
      [] e.tag = "Select" ->
            LET a == self(st, "fold_field_array_expression", e.array)
                i == self(a.st, "fold_field_expression", e.index)
            IN [st |-> i.st, v |-> [e EXCEPT !.array = a.v, !.index = i.v]]

fold_field_expression(st, e) ==
    IF st.panic # NoPanic THEN [st |-> st, v |-> e]
    ELSE CASE e.tag = "Identifier" ->
            LET r == fold_variable(st, field_element(e.id))
            IN [st |-> r.st, v |-> Identifier(r.v.id)]
      [] e.tag = "FunctionCall" ->
            LET a == self(st, "fold_expressions", e.args)
                r == self(a.st, "try_inline_call", <<e.key, a.v>>)
            IN IF r.st.panic # NoPanic THEN [st |-> r.st, v |-> e]
               ELSE IF r.ok
               THEN IF r.v = <<>>
                    THEN [st |-> Panic(r.st, "fold_field_expression: unwrap on None"), v |-> e]
                    ELSE IF Last(r.v).tag \notin FieldTags
                    THEN [st |-> Panic(r.st, "fold_field_expression: unreachable"), v |-> e]
                    ELSE [st |-> r.st, v |-> Last(r.v)]
               ELSE [st |-> r.st, v |-> FunctionCall(e.key, r.v)]
      [] OTHER -> self(st, "default_fold_field_expression", e)

fold_field_array_expression(st, e) ==
    IF st.panic # NoPanic THEN [st |-> st, v |-> e]
    ELSE CASE e.tag = "ArrayIdentifier" ->
            LET r == fold_variable(st, field_array(e.id, e.size))
            IN [st |-> r.st, v |-> ArrayIdentifier(e.size, r.v.id)]
      [] e.tag = "ArrayFunctionCall" ->
            LET a == self(st, "fold_expressions", e.args)
                r == self(a.st, "try_inline_call", <<e.key, a.v>>)
            IN IF r.st.panic # NoPanic THEN [st |-> r.st, v |-> e]
               ELSE IF r.ok
               THEN IF r.v = <<>>
                    THEN [st |-> Panic(r.st, "fold_field_array_expression: unwrap on None"), v |-> e]
                    ELSE IF Last(r.v).tag \notin ArrayTags
                    THEN [st |-> Panic(r.st, "fold_field_array_expression: unreachable"), v |-> e]
                    ELSE [st |-> r.st, v |-> Last(r.v)]
               ELSE [st |-> r.st, v |-> ArrayFunctionCall(e.size, e.key, r.v)]

\* one assignee rewritten by fold_assignee: the assignee and what it was
\* rewritten to, the counter before, after the base and after the index, the
\* rename table after the base, and the length of the call trace around the
\* rewrite of the index
Assignment(a, r, before, based, indexed) ==
    [assignee |-> a, rewritten |-> r.v, counter |-> before.next_var_idx,
     based |-> based.next_var_idx, indexed |-> indexed.next_var_idx,
     bijection |-> based.bijection,
     calls_before |-> Len(based.trace), calls_after |-> Len(indexed.trace)]

Assigned(a, r, before, based, indexed) ==
    IF r.st.panic # NoPanic THEN r
    ELSE [r EXCEPT !.st.assigned = Append(@, Assignment(a, r, before, based, indexed))]

\* fold_assignee that keeps the variable an identifier is already bound to
fold_assignee_reuse(st, a) ==
    IF st.panic # NoPanic THEN [st |-> st, v |-> a]
    ELSE CASE a.tag = "Identifier" ->
            LET u == IF bimap_contains_left(st.bijection, a.v)
                     THEN [st |-> st, v |-> bimap_get_by_left(st.bijection, a.v)]
                     ELSE use_variable(st, a.v)
            IN Assigned(a, [st |-> u.st, v |-> AssigneeIdentifier(u.v)], st, u.st, u.st)
      [] a.tag = "ArrayElement" ->
            LET b == self(st, "fold_assignee", a.a)
                i == self(b.st, "fold_field_expression", a.index)
            IN Assigned(a, [st |-> i.st, v |-> AssigneeArrayElement(b.v, i.v)], st, b.st, i.st)

fold_assignee(st, a) ==
    IF st.panic # NoPanic THEN [st |-> st, v |-> a]
    ELSE CASE a.tag = "Identifier" ->
            LET u == use_variable(st, a.v)
            IN Assigned(a, [st |-> u.st, v |-> AssigneeIdentifier(u.v)], st, u.st, u.st)
      [] a.tag = "ArrayElement" ->
            LET b == self(st, "fold_assignee", a.a)
                i == self(b.st, "fold_field_expression", a.index)
            IN Assigned(a, [st |-> i.st, v |-> AssigneeArrayElement(b.v, i.v)], st, b.st, i.st)

\* the same, the targets kept under their own names
RECURSIVE use_variables_keep(_, _)
use_variables_keep(st, vs) ==
    IF vs = <<>> THEN [st |-> st, v |-> <<>>]
    ELSE LET h == use_variable(st, Head(vs))
             t == use_variables_keep(h.st, Tail(vs))
         IN [st |-> t.st, v |-> <<Head(vs)>> \o t.v]

\* targets.into_iter().map(|v| self.use_variable(&v)), threaded through the Inliner
RECURSIVE use_variables(_, _)
use_variables(st, vs) ==
    IF vs = <<>> THEN [st |-> st, v |-> <<>>]
    ELSE LET h == use_variable(st, Head(vs))
             t == use_variables(h.st, Tail(vs))
         IN [st |-> t.st, v |-> <<h.v>> \o t.v]

\* variables.zip(ret).map(|(v, e)| Definition(Identifier(self.use_variable(&v)), e))
RECURSIVE zip_definitions(_, _, _)
zip_definitions(st, vs, es) ==
    IF vs = <<>> \/ es = <<>> THEN [st |-> st, v |-> <<>>]
    ELSE LET h == use_variable(st, Head(vs))
             t == zip_definitions(h.st, Tail(vs), Tail(es))
         IN [st |-> t.st,
             v |-> <<Definition(AssigneeIdentifier(h.v), Head(es))>> \o t.v]

\* one MultipleDefinition rewritten by fold_statement: the statement, the
\* result `r` of try_inline_call for its call, the value of the counter
\* before its targets were minted, and what it was rewritten to
Site(s, r, folded) ==
    [statement |-> s, ok |-> r.ok, values |-> r.v, minted |-> r.st.next_var_idx,
     depth |-> Len(r.st.stack), folded |-> folded.v]

Sited(s, r, folded) == [folded EXCEPT !.st.sites = Append(@, Site(s, r, folded))]

\* folder::fold_statement: the structural rewrite of Return and Definition
default_fold_statement(st, s) ==
    CASE s.tag = "Return" ->
            LET es == self(st, "fold_expressions", s.exprs)
            IN [st |-> es.st, v |-> <<Return(es.v)>>]
      [] s.tag = "Definition" ->
            LET a == self(st, "fold_assignee", s.a)
                e == self(a.st, "fold_expression", s.e)
            IN [st |-> e.st, v |-> <<Definition(a.v, e.v)>>]

\* fold_statement returning `folded` without draining the pending buffer
fold_statement_no_drain(st, s) ==
    IF st.panic # NoPanic THEN [st |-> st, v |-> <<>>]
    ELSE LET folded ==
                IF s.tag = "MultipleDefinition"
                THEN LET a == self(st, "fold_expressions", s.args)
                         r == self(a.st, "try_inline_call", <<s.key, a.v>>)
                     IN IF r.st.panic # NoPanic THEN [st |-> r.st, v |-> <<>>]
                        ELSE IF r.ok
                        THEN Sited(s, r, zip_definitions(r.st, s.variables, r.v))
                        ELSE LET u == use_variables(r.st, s.variables)
                             IN Sited(s, r, [st |-> u.st,
                                             v |-> <<MultipleDefinition(u.v, s.key, r.v,
                                                                        s.types)>>])
                ELSE self(st, "default_fold_statement", s)
         IN IF folded.st.panic # NoPanic THEN [st |-> folded.st, v |-> <<>>]
            ELSE [st |-> folded.st, v |-> folded.v]

fold_statement(st, s) ==
    IF st.panic # NoPanic THEN [st |-> st, v |-> <<>>]
    ELSE LET folded ==
                IF s.tag = "MultipleDefinition"
                THEN LET a == self(st, "fold_expressions", s.args)
                         r == self(a.st, "try_inline_call", <<s.key, a.v>>)
                     IN IF r.st.panic # NoPanic THEN [st |-> r.st, v |-> <<>>]
                        ELSE IF r.ok
                        THEN Sited(s, r, zip_definitions(r.st, s.variables, r.v))
                        ELSE LET u == use_variables(r.st, s.variables)
                             IN Sited(s, r, [st |-> u.st,
                                             v |-> <<MultipleDefinition(u.v, s.key, r.v,
                                                                        s.types)>>])
                ELSE self(st, "default_fold_statement", s)
         IN IF folded.st.panic # NoPanic THEN [st |-> folded.st, v |-> <<>>]
            ELSE [st |-> [folded.st EXCEPT !.statement_buffer = <<>>],
                  v |-> folded.st.statement_buffer \o folded.v]

\* statements.into_iter().flat_map(|s| self.fold_statement(s))
fold_statements(st, ss) ==
    IF ss = <<>> THEN [st |-> st, v |-> <<>>]
    ELSE LET h == self(st, "fold_statement", Head(ss))
             t == self(h.st, "fold_statements", Tail(ss))
         IN [st |-> t.st, v |-> h.v \o t.v]

\* the same, the Definitions binding the parameters under their own names
bind_inputs_unrenamed(st, params, es) ==
    IF params = <<>> \/ es = <<>> THEN [st |-> st, v |-> <<>>]
    ELSE LET h == self(st, "fold_assignee", AssigneeIdentifier(Head(params).id))
             t == self(h.st, "bind_inputs", <<Tail(params), Tail(es)>>)
         IN [st |-> t.st,
             v |-> <<Definition(AssigneeIdentifier(Head(params).id), Head(es))>> \o t.v]

\* function.arguments.iter().zip(expressions).map(|(a, e)| Definition(fold_assignee(a.id), e))
bind_inputs(st, params, es) ==
    IF params = <<>> \/ es = <<>> THEN [st |-> st, v |-> <<>>]
    ELSE LET h == self(st, "fold_assignee", AssigneeIdentifier(Head(params).id))
             t == self(h.st, "bind_inputs", <<Tail(params), Tail(es)>>)
         IN [st |-> t.st, v |-> <<Definition(h.v, Head(es))>> \o t.v]

\* Inliner::module: self.modules.get(&self.module_id)
has_module(st) == st.module_id \in DOMAIN st.modules

module(st) == st.modules[st.module_id]

\* the function of a symbol that has no body
NoBody == [arguments |-> <<>>, statements |-> <<>>]

try_inline_call(st, key, expressions) ==
    IF st.panic # NoPanic THEN [st |-> st, ok |-> FALSE, v |-> expressions]
    ELSE IF ~has_module(st)
    THEN Traced([st |-> Panic(st, "module: unwrap on None"), ok |-> FALSE, v |-> expressions],
                key, "None", st, "panic", <<>>, expressions, NoBody)
    ELSE IF key \notin DOMAIN module(st).functions
    THEN Traced([st |-> Panic(st, "try_inline_call: unwrap on None"), ok |-> FALSE, v |-> expressions],
                key, "None", st, "panic", <<>>, expressions, NoBody)
    ELSE IF Cardinality(Open(st, key)) >= MaxRepeats
    THEN [st |-> Panic([st EXCEPT !.stack = Append(@, Activation(st, key))], Diverges),
          ok |-> FALSE, v |-> expressions]
    ELSE LET symbol == module(st).functions[key]
             entered == [st EXCEPT !.stack = Append(@, Activation(st, key))]
         IN
      CASE symbol.kind = "Here" ->
            LET function == symbol.function
                inputs_bindings == self(entered, "bind_inputs", <<function.arguments, expressions>>)
                st1 == [inputs_bindings.st EXCEPT !.statement_buffer = @ \o inputs_bindings.v,
                                                  !.pushed = @ \o inputs_bindings.v]
                folded == self(st1, "fold_statements", function.statements)
                stmts == partition_not_return(folded.v)
                ret == partition_return(folded.v)
                st2 == [folded.st EXCEPT !.statement_buffer = @ \o stmts,
                                         !.pushed = @ \o stmts]
            IN IF folded.st.panic # NoPanic
               THEN Traced([st |-> folded.st, ok |-> FALSE, v |-> expressions],
                           key, "Here", st, "panic", <<>>, expressions, function)
               ELSE IF ret = <<>>
               THEN Traced([st |-> Panic(st2, "try_inline_call: pop on empty"), ok |-> FALSE, v |-> expressions],
                           key, "Here", st, "panic", folded.v, expressions, function)
               ELSE Traced([st |-> st2, ok |-> TRUE, v |-> Last(ret).exprs],
                           key, "Here", st, "Ok", folded.v, expressions, function)
        [] symbol.kind = "There" ->
            LET c == change_module(entered, symbol.module_id)
                current_module == c.v
                res == self(c.st, "try_inline_call", <<symbol.key, expressions>>)
            IN IF res.st.panic # NoPanic \/ ~res.ok
               THEN Traced([st |-> res.st, ok |-> FALSE, v |-> res.v],
                           key, "There", st, "Err", <<>>, expressions, NoBody)
               ELSE Traced([st |-> change_module(res.st, current_module).st, ok |-> TRUE, v |-> res.v],
                           key, "There", st, "Ok", <<>>, expressions, NoBody)
        [] symbol.kind = "Flat" ->
            Traced([st |-> entered, ok |-> FALSE, v |-> expressions],
                   key, "Flat", st, "Err", <<>>, expressions, NoBody)

self(st, method, arg) ==
    CASE method = "fold_expression" -> fold_expression(st, arg)
      [] method = "fold_expressions" -> fold_expressions(st, arg)
      [] method = "fold_field_expression" -> fold_field_expression(st, arg)
      [] method = "default_fold_field_expression" -> default_fold_field_expression(st, arg)
      [] method = "fold_field_array_expression" -> fold_field_array_expression(st, arg)
      [] method = "fold_assignee" -> fold_assignee(st, arg)
      [] method = "fold_statement" -> fold_statement(st, arg)
      [] method = "default_fold_statement" -> default_fold_statement(st, arg)
      [] method = "fold_statements" -> fold_statements(st, arg)
      [] method = "bind_inputs" -> bind_inputs(st, arg[1], arg[2])
      [] method = "try_inline_call" -> try_inline_call(st, arg[1], arg[2])

\* ------------------------------------------------ the two fixed helpers
\* types::conversions::split and standard::sha_round, with their widths
\* narrowed to what the input programs below use
split_signature == Signature(<<FieldElement>>, <<FieldElement, FieldElement>>)
split == Flat("split", split_signature)
split_key == FunctionKey("split", split_signature)

sha_round_signature == Signature(<<FieldElement, FieldElement>>, <<FieldElement>>)
sha_round == Flat("sha_round", sha_round_signature)
sha_round_key == FunctionKey("sha256", sha_round_signature)

\* ------------------------------------------------------ input programs
sig_0_1 == Signature(<<>>, <<FieldElement>>)
sig_1_1 == Signature(<<FieldElement>>, <<FieldElement>>)
sig_1_2 == Signature(<<FieldElement>>, <<FieldElement, FieldElement>>)
sig_a_1 == Signature(<<FieldElementArray>>, <<FieldElement>>)
sig_2_1 == Signature(<<FieldElement, FieldElement>>, <<FieldElement>>)

key_const == FunctionKey("const", sig_0_1)
key_foo == FunctionKey("foo", sig_1_1)
key_sq == FunctionKey("sq", sig_1_1)
key_id == FunctionKey("id", sig_1_1)
key_twice == FunctionKey("twice", sig_1_1)
key_pair == FunctionKey("pair", sig_1_2)
key_first == FunctionKey("first", sig_a_1)
key_unpack == FunctionKey("unpack", split_signature)
key_four == FunctionKey("four", sig_0_1)
key_digest == FunctionKey("digest", sig_1_1)
key_sum == FunctionKey("sum", sig_2_1)
key_no_return == FunctionKey("no_return", sig_1_1)
key_two_returns == FunctionKey("two_returns", sig_1_1)
key_return_first == FunctionKey("return_first", sig_1_1)
key_missing == FunctionKey("missing", sig_1_1)
key_main_0 == FunctionKey("main", sig_0_1)
key_main_1 == FunctionKey("main", sig_1_1)
key_main_a == FunctionKey("main", sig_a_1)

private(v) == Parameter(v, TRUE)
public(v) == Parameter(v, FALSE)

a == Identifier("a")
b == Identifier("b")
c == Identifier("c")

\* def const() -> (field): return 42
fn_const == TypedFunction(<<>>, <<Return(<<Number(42)>>)>>, sig_0_1)
\* def foo(field a) -> (field): return a * a
fn_foo == TypedFunction(<<private(field_element("a"))>>, <<Return(<<Mult(a, a)>>)>>, sig_1_1)
\* def sq(field x) -> (field): field b = x * x; return b
fn_sq == TypedFunction(<<private(field_element("x"))>>,
            <<Definition(AssigneeIdentifier(field_element("b")),
                         Mult(Identifier("x"), Identifier("x"))),
              Return(<<b>>)>>, sig_1_1)
\* def main(field a) -> (field): return a       (the module "id" of the tests)
fn_id == TypedFunction(<<private(field_element("a"))>>, <<Return(<<a>>)>>, sig_1_1)
\* def twice(field y) -> (field): return sq(y) + sq(y)
fn_twice == TypedFunction(<<private(field_element("y"))>>,
            <<Return(<<Add(FunctionCall(key_sq, <<Identifier("y")>>),
                           FunctionCall(key_sq, <<Identifier("y")>>))>>)>>, sig_1_1)
\* def pair(field a) -> (field, field): field b = a + 1; return a, b
fn_pair == TypedFunction(<<private(field_element("a"))>>,
            <<Definition(AssigneeIdentifier(field_element("b")), Add(a, Number(1))),
              Return(<<a, b>>)>>, sig_1_2)
\* def first(field[2] v) -> (field): return v[0]
fn_first == TypedFunction(<<private(field_array("v", 2))>>,
            <<Return(<<Select(ArrayIdentifier(2, "v"), Number(0))>>)>>, sig_a_1)
\* def four() -> (field): return sq(2)
fn_four == TypedFunction(<<>>, <<Return(<<FunctionCall(key_sq, <<Number(2)>>)>>)>>, sig_0_1)
\* def sum(field x, field y) -> (field): return x + y
fn_sum == TypedFunction(<<private(field_element("x")), private(field_element("y"))>>,
            <<Return(<<Add(Identifier("x"), Identifier("y"))>>)>>, sig_2_1)
\* def digest(field a) -> (field): b, c = split(a); return foo(b + c)
fn_digest == TypedFunction(<<private(field_element("a"))>>,
            <<MultipleDefinition(<<field_element("b"), field_element("c")>>, split_key, <<a>>,
                                 <<FieldElement, FieldElement>>),
              Return(<<FunctionCall(key_foo, <<Add(b, c)>>)>>)>>, sig_1_1)
\* def no_return(field a) -> (field): field b = a
fn_no_return == TypedFunction(<<private(field_element("a"))>>,
            <<Definition(AssigneeIdentifier(field_element("b")), a)>>, sig_1_1)
\* def two_returns(field a) -> (field): return a; return a + 1
fn_two_returns == TypedFunction(<<private(field_element("a"))>>,
            <<Return(<<a>>), Return(<<Add(a, Number(1))>>)>>, sig_1_1)
\* def return_first(field a) -> (field): return a; field b = a + 1
fn_return_first == TypedFunction(<<private(field_element("a"))>>,
            <<Return(<<a>>),
              Definition(AssigneeIdentifier(field_element("b")), Add(a, Number(1)))>>, sig_1_1)

\* the functions a library module defines
Library ==
    (key_const :> Here(fn_const)) @@ (key_foo :> Here(fn_foo)) @@
    (key_sq :> Here(fn_sq)) @@ (key_twice :> Here(fn_twice)) @@
    (key_pair :> Here(fn_pair)) @@ (key_first :> Here(fn_first)) @@
    (key_four :> Here(fn_four)) @@ (key_sum :> Here(fn_sum)) @@
    (key_digest :> Here(fn_digest)) @@
    (key_no_return :> Here(fn_no_return)) @@
    (key_two_returns :> Here(fn_two_returns)) @@
    (key_return_first :> Here(fn_return_first))

\* the module of the primitives and the module "id" of the tests
Primitives == (split_key :> split) @@ (sha_round_key :> sha_round)
IdModule == (key_main_1 :> Here(fn_id))

\* links every key of `functions` to the module `module_id`
Links(functions, module_id) == [k \in DOMAIN functions |-> There(k, module_id)]

\* what every entry module imports: the primitives under their own keys,
\* split also under the key unpack, and the main of module "id" as id
Imports ==
    Links(Primitives, "prims") @@ (key_unpack :> There(split_key, "prims")) @@
    (key_id :> There(key_main_1, "id"))

main_0(stmts) == (key_main_0 :> Here(TypedFunction(<<>>, stmts, sig_0_1)))
main_1(stmts) ==
    (key_main_1 :> Here(TypedFunction(<<private(field_element("a"))>>, stmts, sig_1_1)))
main_a(stmts) ==
    (key_main_a :> Here(TypedFunction(<<public(field_array("a", 2))>>, stmts, sig_a_1)))

\* the main functions of the valid programs
ValidMains == {
    \* return const()
    main_0(<<Return(<<FunctionCall(key_const, <<>>)>>)>>),
    \* return a * foo(a)
    main_1(<<Return(<<Mult(a, FunctionCall(key_foo, <<a>>))>>)>>),
    \* return foo(a + 1) * a
    main_1(<<Return(<<Mult(FunctionCall(key_foo, <<Add(a, Number(1))>>), a)>>)>>),
    \* b = const(); return b
    main_0(<<MultipleDefinition(<<field_element("b")>>, key_const, <<>>, <<FieldElement>>),
             Return(<<b>>)>>),
    \* return id(id(a))
    main_1(<<Return(<<FunctionCall(key_id, <<FunctionCall(key_id, <<a>>)>>)>>)>>),
    \* b, c = pair(a); return b + c
    main_1(<<MultipleDefinition(<<field_element("b"), field_element("c")>>, key_pair, <<a>>,
                                <<FieldElement, FieldElement>>),
             Return(<<Add(b, c)>>)>>),
    \* field b = a + 1; return twice(b) + sq(a)
    main_1(<<Definition(AssigneeIdentifier(field_element("b")), Add(a, Number(1))),
             Return(<<Add(FunctionCall(key_twice, <<b>>), FunctionCall(key_sq, <<a>>))>>)>>),
    \* b, c = split(a); return sha256(b, c)
    main_1(<<MultipleDefinition(<<field_element("b"), field_element("c")>>, split_key, <<a>>,
                                <<FieldElement, FieldElement>>),
             Return(<<FunctionCall(sha_round_key, <<b, c>>)>>)>>),
    \* b, c = unpack(a); return b + c
    main_1(<<MultipleDefinition(<<field_element("b"), field_element("c")>>, key_unpack, <<a>>,
                                <<FieldElement, FieldElement>>),
             Return(<<Add(b, c)>>)>>),
    \* b, c = split(a); return foo(b + c)
    main_1(<<MultipleDefinition(<<field_element("b"), field_element("c")>>, split_key, <<a>>,
                                <<FieldElement, FieldElement>>),
             Return(<<FunctionCall(key_foo, <<Add(b, c)>>)>>)>>),
    \* a[0] = 1; return first(a)
    main_a(<<Definition(AssigneeArrayElement(AssigneeIdentifier(field_array("a", 2)), Number(0)),
                        Number(1)),
             Return(<<FunctionCall(key_first, <<ArrayIdentifier(2, "a")>>)>>)>>),
    \* a[a[0]] = 1; return a[0]
    main_a(<<Definition(AssigneeArrayElement(AssigneeIdentifier(field_array("a", 2)),
                                             Select(ArrayIdentifier(2, "a"), Number(0))),
                        Number(1)),
             Return(<<Select(ArrayIdentifier(2, "a"), Number(0))>>)>>),
    \* a[foo(0)] = 1; return a[0]
    main_a(<<Definition(AssigneeArrayElement(AssigneeIdentifier(field_array("a", 2)),
                                             FunctionCall(key_foo, <<Number(0)>>)),
                        Number(1)),
             Return(<<Select(ArrayIdentifier(2, "a"), Number(0))>>)>>),
    \* return four()
    main_0(<<Return(<<FunctionCall(key_four, <<>>)>>)>>),
    \* return sum(a + 1, sq(a))
    main_1(<<Return(<<FunctionCall(key_sum, <<Add(a, Number(1)),
                                               FunctionCall(key_sq, <<a>>)>>)>>)>>),
    \* return digest(a)
    main_1(<<Return(<<FunctionCall(key_digest, <<a>>)>>)>>),
    \* b = const(); field c = sq(2); return b + c
    main_0(<<MultipleDefinition(<<field_element("b")>>, key_const, <<>>, <<FieldElement>>),
             Definition(AssigneeIdentifier(field_element("c")),
                        FunctionCall(key_sq, <<Number(2)>>)),
             Return(<<Add(b, c)>>)>>),
    \* two functions named main: main() returns 1, main(a) returns a
    main_0(<<Return(<<Number(1)>>)>>) @@ main_1(<<Return(<<a>>)>>)
}

\* the main functions of the programs that break the input contract
InvalidMains == {
    \* a call whose key is in no module
    main_1(<<Return(<<FunctionCall(key_missing, <<a>>)>>)>>),
    \* a read of a variable that was never bound
    main_1(<<Return(<<Add(a, c)>>)>>),
    \* no function named main
    (key_foo :> Here(fn_foo)),
    \* callees whose body is not a sequence of statements closed by one Return
    main_1(<<Return(<<FunctionCall(key_no_return, <<a>>)>>)>>),
    main_1(<<Return(<<FunctionCall(key_two_returns, <<a>>)>>)>>),
    main_1(<<Return(<<FunctionCall(key_return_first, <<a>>)>>)>>)
}

Module(functions) == [functions |-> functions, imports |-> <<>>]

\* the library is in the entry module itself
LocalProgram(entry, mains) ==
    [main |-> entry,
     modules |-> (entry :> Module(mains @@ Library @@ Primitives @@ Imports)) @@
                 ("prims" :> Module(Primitives)) @@ ("id" :> Module(IdModule))]

\* the module "lib": the library, with the primitives imported from "prims"
LibModule == Library @@ Links(Primitives, "prims")

\* the library is in the module "lib", imported by the entry module
RemoteProgram(entry, mains) ==
    [main |-> entry,
     modules |-> (entry :> Module(mains @@ Links(Library, "lib") @@ Imports)) @@
                 ("lib" :> Module(LibModule)) @@
                 ("prims" :> Module(Primitives)) @@ ("id" :> Module(IdModule))]

\* the library is in the module "lib", imported through the module "mid"
ChainProgram(entry, mains) ==
    [main |-> entry,
     modules |-> (entry :> Module(mains @@ Links(Library, "mid") @@ Imports)) @@
                 ("mid" :> Module(Links(Library, "lib"))) @@
                 ("lib" :> Module(LibModule)) @@
                 ("prims" :> Module(Primitives)) @@ ("id" :> Module(IdModule))]

EntryIds == {"main", "app"}

ProgramsOf(mains) ==
    UNION {{LocalProgram(entry, m), RemoteProgram(entry, m), ChainProgram(entry, m)} :
           entry \in EntryIds, m \in mains}

ValidPrograms == ProgramsOf(ValidMains)

\* a program whose entry identifier names no module
NoEntryProgram ==
    [main |-> "nowhere", modules |-> ("main" :> Module(main_0(<<Return(<<Number(1)>>)>>)))]

\* ------------------------------------- programs whose call graph has a cycle
key_rec == FunctionKey("rec", sig_1_1)
key_loop == FunctionKey("loop", sig_0_1)
key_hop == FunctionKey("hop", sig_1_1)
key_back == FunctionKey("back", sig_1_1)
key_link == FunctionKey("link", sig_1_1)

\* def rec(field a) -> (field): return rec(a + 1)
fn_rec == TypedFunction(<<private(field_element("a"))>>,
            <<Return(<<FunctionCall(key_rec, <<Add(a, Number(1))>>)>>)>>, sig_1_1)
\* def loop() -> (field): return loop()
fn_loop == TypedFunction(<<>>, <<Return(<<FunctionCall(key_loop, <<>>)>>)>>, sig_0_1)
\* def hop(field a) -> (field): return back(a + 1)
fn_hop == TypedFunction(<<private(field_element("a"))>>,
            <<Return(<<FunctionCall(key_back, <<Add(a, Number(1))>>)>>)>>, sig_1_1)

\* module "ping" defines hop and imports back from "pong"; module "pong"
\* imports hop from "ping" under the key back; each binds the key link to the
\* same key of the other
PingModule ==
    (key_hop :> Here(fn_hop)) @@ (key_back :> There(key_back, "pong")) @@
    (key_link :> There(key_link, "pong"))
PongModule ==
    (key_back :> There(key_hop, "ping")) @@ (key_link :> There(key_link, "ping"))

CyclicMains == {
    \* return rec(a)
    main_1(<<Return(<<FunctionCall(key_rec, <<a>>)>>)>>),
    \* return loop()
    main_0(<<Return(<<FunctionCall(key_loop, <<>>)>>)>>),
    \* return hop(a)
    main_1(<<Return(<<FunctionCall(key_hop, <<a>>)>>)>>),
    \* return link(a)
    main_1(<<Return(<<FunctionCall(key_link, <<a>>)>>)>>),
    \* return const(): the functions that reach themselves are never called
    main_0(<<Return(<<FunctionCall(key_const, <<>>)>>)>>)
}

CyclicProgram(entry, mains) ==
    [main |-> entry,
     modules |-> (entry :> Module(mains @@ (key_rec :> Here(fn_rec)) @@
                                  (key_loop :> Here(fn_loop)) @@
                                  (key_const :> Here(fn_const)) @@
                                  (key_hop :> There(key_hop, "ping")) @@
                                  (key_link :> There(key_link, "ping")))) @@
                 ("ping" :> Module(PingModule)) @@ ("pong" :> Module(PongModule))]

CyclicPrograms == {CyclicProgram(entry, m) : entry \in EntryIds, m \in CyclicMains}

Programs ==
    ValidPrograms \cup ProgramsOf(InvalidMains) \cup {NoEntryProgram} \cup CyclicPrograms

\* ----------------------------------------------------------- inline
NoProgram == [main |-> "", modules |-> <<>>]
NoKey == FunctionKey("", Signature(<<>>, <<>>))
NoFunction == Here(TypedFunction(<<>>, <<>>, Signature(<<>>, <<>>)))

Fresh(p) ==
    with_modules_and_module_id_and_bijection_and_next_var_idx(p.modules, p.main, {}, 0)

Init ==
    /\ program \in Programs
    /\ pc = "start"
    /\ inliner = Fresh(program)
    /\ main_key = NoKey
    /\ main = NoFunction
    /\ arguments = <<>>
    /\ statements = <<>>
    /\ position = 0
    /\ output = NoProgram
    /\ invocation = 1
    /\ previous = <<>>

\* the keys `find(|(k, _)| k.id == "main")` can return: the functions of a
\* module are a HashMap, whose iteration order is not fixed
MainKeys(p) == {k \in DOMAIN p.modules[p.main].functions : k.id = "main"}

\* inline, lines 32-47: p.modules.get(&main_module_id).unwrap() finds nothing
InlineNoEntryModule ==
    /\ pc = "start"
    /\ program.main \notin DOMAIN program.modules
    /\ pc' = "aborted"
    /\ inliner' = Panic(inliner, "inline: unwrap on None (entry module)")
    /\ UNCHANGED <<program, main_key, main, arguments, statements, position, output,
                   invocation, previous>>

\* inline, lines 36-40: find(..).unwrap() finds no function named main
InlineNoMain ==
    /\ pc = "start"
    /\ program.main \in DOMAIN program.modules
    /\ MainKeys(program) = {}
    /\ pc' = "aborted"
    /\ inliner' = Panic(inliner, "inline: unwrap on None (main)")
    /\ UNCHANGED <<program, main_key, main, arguments, statements, position, output,
                   invocation, previous>>

\* inline, lines 32-47: main is found and the Inliner is created
InlineStart ==
    /\ pc = "start"
    /\ program.main \in DOMAIN program.modules
    /\ \E k \in MainKeys(program) :
          /\ main_key' = k
          /\ main' = program.modules[program.main].functions[k]
    /\ inliner' = Fresh(program)
    /\ pc' = "fold"
    /\ UNCHANGED <<program, arguments, statements, position, output, invocation, previous>>

\* folder::fold_function, the next parameter of main
FoldParameter ==
    /\ pc = "fold"
    /\ Len(arguments) < Len(main.function.arguments)
    /\ LET r == fold_parameter(inliner, main.function.arguments[Len(arguments) + 1])
       IN /\ inliner' = r.st
          /\ arguments' = Append(arguments, r.v)
    /\ UNCHANGED <<program, pc, main_key, main, statements, position, output,
                   invocation, previous>>

\* folder::fold_function, the next statement of main
FoldStatement ==
    /\ pc = "fold"
    /\ Len(arguments) = Len(main.function.arguments)
    /\ position < Len(main.function.statements)
    /\ LET r == self(inliner, "fold_statement", main.function.statements[position + 1])
       IN /\ r.st.panic = NoPanic
          /\ inliner' = r.st
          /\ statements' = statements \o r.v
    /\ position' = position + 1
    /\ UNCHANGED <<program, pc, main_key, main, arguments, output, invocation, previous>>

\* the same, when rewriting the statement panics: inline is unwound
FoldStatementPanics ==
    /\ pc = "fold"
    /\ Len(arguments) = Len(main.function.arguments)
    /\ position < Len(main.function.statements)
    /\ LET r == self(inliner, "fold_statement", main.function.statements[position + 1])
       IN /\ r.st.panic \notin {NoPanic, Diverges}
          /\ inliner' = r.st
    /\ pc' = "aborted"
    /\ UNCHANGED <<program, main_key, main, arguments, statements, position, output,
                   invocation, previous>>

\* the same, when try_inline_call keeps calling itself: fold_statement does
\* not return, and neither does inline
FoldStatementDiverges ==
    /\ pc = "fold"
    /\ Len(arguments) = Len(main.function.arguments)
    /\ position < Len(main.function.statements)
    /\ LET r == self(inliner, "fold_statement", main.function.statements[position + 1])
       IN /\ r.st.panic = Diverges
          /\ inliner' = r.st
    /\ pc' = "diverging"
    /\ UNCHANGED <<program, main_key, main, arguments, statements, position, output,
                   invocation, previous>>

\* inline keeping the module under the entry identifier of the input
assemble_under_entry_id(key, function) ==
    [main |-> "main",
     modules |-> (program.main :>
        [functions |-> (key :> function) @@ (sha_round_key :> sha_round) @@
                       (split_key :> split),
         imports |-> <<>>])]

\* inline without the entry (sha_round_key, Flat(sha_round))
assemble_without_sha_round(key, function) ==
    [main |-> "main",
     modules |-> ("main" :>
        [functions |-> (key :> function) @@ (split_key :> split),
         imports |-> <<>>])]

\* inline, lines 51-74: the program returned
assemble(key, function) ==
    [main |-> "main",
     modules |-> ("main" :>
        [functions |-> (key :> function) @@ (sha_round_key :> sha_round) @@
                       (split_key :> split),
         imports |-> <<>>])]

\* inline, lines 49-74
InlineReturn ==
    /\ pc = "fold"
    /\ Len(arguments) = Len(main.function.arguments)
    /\ position = Len(main.function.statements)
    /\ output' = assemble(main_key,
                          Here([main.function EXCEPT !.arguments = arguments,
                                                     !.statements = statements]))
    /\ pc' = "returned"
    /\ UNCHANGED <<program, inliner, main_key, main, arguments, statements, position,
                   invocation, previous>>

\* inline is called again on the same program
InlineAgain ==
    /\ pc \in {"returned", "aborted"}
    /\ invocation < MaxInvocations
    /\ previous' = Append(previous, output)
    /\ invocation' = invocation + 1
    /\ pc' = "start"
    /\ inliner' = Fresh(program)
    /\ main_key' = NoKey
    /\ main' = NoFunction
    /\ arguments' = <<>>
    /\ statements' = <<>>
    /\ position' = 0
    /\ output' = NoProgram
    /\ UNCHANGED program

Next ==
    \/ InlineNoEntryModule
    \/ InlineNoMain
    \/ InlineStart
    \/ FoldParameter
    \/ FoldStatement
    \/ FoldStatementPanics
    \/ FoldStatementDiverges
    \/ InlineReturn
    \/ InlineAgain

Spec == Init /\ [][Next]_vars

\* ---------------------------------------------------- the output program
Returned == pc = "returned"

\* the rewritten main of the program returned
OutputModule == output.modules[output.main]
OutputMain == output.modules["main"].functions[main_key].function

RECURSIVE AssigneeVariable(_)
AssigneeVariable(x) == IF x.tag = "Identifier" THEN x.v ELSE AssigneeVariable(x.a)

RECURSIVE ExprReads(_)
RECURSIVE ExprsReads(_)
\* the names of the variables an expression reads
ExprReads(e) ==
    CASE e.tag = "Number" -> {}
      [] e.tag \in {"Identifier", "ArrayIdentifier"} -> {e.id}
      [] e.tag \in {"Add", "Mult"} -> ExprReads(e.l) \cup ExprReads(e.r)
      [] e.tag = "Select" -> ExprReads(e.array) \cup ExprReads(e.index)
      [] e.tag \in {"FunctionCall", "ArrayFunctionCall"} -> ExprsReads(e.args)
ExprsReads(es) == IF es = <<>> THEN {} ELSE ExprReads(Head(es)) \cup ExprsReads(Tail(es))

RECURSIVE AssigneeReads(_)
AssigneeReads(x) ==
    IF x.tag = "Identifier" THEN {} ELSE AssigneeReads(x.a) \cup ExprReads(x.index)

\* the names a statement reads and the names it binds, in order
StatementReads(s) ==
    CASE s.tag = "Return" -> ExprsReads(s.exprs)
      [] s.tag = "Definition" -> AssigneeReads(s.a) \cup ExprReads(s.e)
      [] s.tag = "MultipleDefinition" -> ExprsReads(s.args)

StatementBinds(s) ==
    CASE s.tag = "Return" -> <<>>
      [] s.tag = "Definition" -> <<AssigneeVariable(s.a).id>>
      [] s.tag = "MultipleDefinition" -> [i \in 1..Len(s.variables) |-> s.variables[i].id]

RECURSIVE StatementsBind(_)
StatementsBind(ss) ==
    IF ss = <<>> THEN <<>> ELSE StatementBinds(Head(ss)) \o StatementsBind(Tail(ss))

\* every binding occurrence of a function, in order
Bindings(f) == [i \in 1..Len(f.arguments) |-> f.arguments[i].id.id] \o StatementsBind(f.statements)

Range(q) == {q[i] : i \in 1..Len(q)}

RECURSIVE ExprCalls(_)
RECURSIVE ExprsCalls(_)
\* the keys of the calls that occur in an expression
ExprCalls(e) ==
    CASE e.tag \in {"Number", "Identifier", "ArrayIdentifier"} -> {}
      [] e.tag \in {"Add", "Mult"} -> ExprCalls(e.l) \cup ExprCalls(e.r)
      [] e.tag = "Select" -> ExprCalls(e.array) \cup ExprCalls(e.index)
      [] e.tag \in {"FunctionCall", "ArrayFunctionCall"} -> {e.key} \cup ExprsCalls(e.args)
ExprsCalls(es) == IF es = <<>> THEN {} ELSE ExprCalls(Head(es)) \cup ExprsCalls(Tail(es))

RECURSIVE AssigneeCalls(_)
AssigneeCalls(x) ==
    IF x.tag = "Identifier" THEN {} ELSE AssigneeCalls(x.a) \cup ExprCalls(x.index)

StatementCalls(s) ==
    CASE s.tag = "Return" -> ExprsCalls(s.exprs)
      [] s.tag = "Definition" -> AssigneeCalls(s.a) \cup ExprCalls(s.e)
      [] s.tag = "MultipleDefinition" -> {s.key} \cup ExprsCalls(s.args)

RemainingCalls(f) == UNION {StatementCalls(f.statements[i]) : i \in 1..Len(f.statements)}

Events == Range(inliner.trace)

\* ------------------------------------------------------------ evaluation
\* The meaning of a typed program: a value is a sequence of field elements
\* (one for a field element, two for an array), a call runs the callee's
\* statements in a scope of its own, in the callee's module.  A result is
\* [ok |-> FALSE] when evaluation is stuck (unbound variable, unknown key,
\* index out of range, no Return).
Stuck == [ok |-> FALSE, v |-> <<>>]
Value(v) == [ok |-> TRUE, v |-> v]

\* the two Primitive helpers, as functions of their arguments
FlatApply(name, args) ==
    CASE name = "split" /\ Len(args) = 1 ->
            Value(<<<<args[1][1] % 2>>, <<(args[1][1] \div 2) % 2>>>>)
      [] name = "sha_round" /\ Len(args) = 2 ->
            Value(<<<<args[1][1] * args[2][1] + 1>>>>)
      [] OTHER -> Stuck

RECURSIVE EvalExpr(_, _, _, _)
RECURSIVE EvalExprs(_, _, _, _)
RECURSIVE EvalStatements(_, _, _, _)
RECURSIVE EvalCall(_, _, _, _)

EvalExpr(p, m, env, e) ==
    CASE e.tag = "Number" -> Value(<<e.n>>)
      [] e.tag = "Identifier" ->
            IF field_element(e.id) \in DOMAIN env THEN Value(env[field_element(e.id)]) ELSE Stuck
      [] e.tag = "ArrayIdentifier" ->
            IF field_array(e.id, e.size) \in DOMAIN env
            THEN Value(env[field_array(e.id, e.size)]) ELSE Stuck
      [] e.tag \in {"Add", "Mult"} ->
            LET l == EvalExpr(p, m, env, e.l)
                r == EvalExpr(p, m, env, e.r)
            IN IF ~l.ok \/ ~r.ok THEN Stuck
               ELSE IF e.tag = "Add" THEN Value(<<l.v[1] + r.v[1]>>)
               ELSE Value(<<l.v[1] * r.v[1]>>)
      [] e.tag = "Select" ->
            LET arr == EvalExpr(p, m, env, e.array)
                i == EvalExpr(p, m, env, e.index)
            IN IF ~arr.ok \/ ~i.ok THEN Stuck
               ELSE IF i.v[1] + 1 \notin 1..Len(arr.v) THEN Stuck
               ELSE Value(<<arr.v[i.v[1] + 1]>>)
      [] e.tag \in {"FunctionCall", "ArrayFunctionCall"} ->
            LET args == EvalExprs(p, m, env, e.args)
                r == IF args.ok THEN EvalCall(p, m, e.key, args.v) ELSE Stuck
            IN IF ~r.ok \/ r.v = <<>> THEN Stuck ELSE Value(r.v[1])

EvalExprs(p, m, env, es) ==
    IF es = <<>> THEN Value(<<>>)
    ELSE LET h == EvalExpr(p, m, env, Head(es))
             t == EvalExprs(p, m, env, Tail(es))
         IN IF ~h.ok \/ ~t.ok THEN Stuck ELSE Value(<<h.v>> \o t.v)

Bind(env, v, val) == [x \in DOMAIN env \cup {v} |-> IF x = v THEN val ELSE env[x]]

RECURSIVE BindAll(_, _, _)
BindAll(env, vs, vals) ==
    IF vs = <<>> \/ vals = <<>> THEN env
    ELSE BindAll(Bind(env, Head(vs), Head(vals)), Tail(vs), Tail(vals))

\* the values the first Return of `ss` returns
EvalStatements(p, m, env, ss) ==
    IF ss = <<>> THEN Stuck
    ELSE LET s == Head(ss) IN
      CASE s.tag = "Return" -> EvalExprs(p, m, env, s.exprs)
        [] s.tag = "Definition" /\ s.a.tag = "Identifier" ->
            LET val == EvalExpr(p, m, env, s.e)
            IN IF ~val.ok THEN Stuck
               ELSE EvalStatements(p, m, Bind(env, s.a.v, val.v), Tail(ss))
        [] s.tag = "Definition" /\ s.a.tag = "ArrayElement" ->
            LET base == AssigneeVariable(s.a)
                i == EvalExpr(p, m, env, s.a.index)
                val == EvalExpr(p, m, env, s.e)
            IN IF ~i.ok \/ ~val.ok \/ base \notin DOMAIN env THEN Stuck
               ELSE IF i.v[1] + 1 \notin 1..Len(env[base]) THEN Stuck
               ELSE EvalStatements(p, m,
                        Bind(env, base, [env[base] EXCEPT ![i.v[1] + 1] = val.v[1]]),
                        Tail(ss))
        [] s.tag = "MultipleDefinition" ->
            LET args == EvalExprs(p, m, env, s.args)
                r == IF args.ok THEN EvalCall(p, m, s.key, args.v) ELSE Stuck
            IN IF ~r.ok \/ Len(r.v) # Len(s.variables) THEN Stuck
               ELSE EvalStatements(p, m, BindAll(env, s.variables, r.v), Tail(ss))

EvalCall(p, m, key, args) ==
    IF m \notin DOMAIN p.modules THEN Stuck
    ELSE IF key \notin DOMAIN p.modules[m].functions THEN Stuck
    ELSE LET symbol == p.modules[m].functions[key] IN
      CASE symbol.kind = "Here" ->
            IF Len(symbol.function.arguments) # Len(args) THEN Stuck
            ELSE EvalStatements(p, m,
                    BindAll(<<>>, [i \in 1..Len(args) |-> symbol.function.arguments[i].id], args),
                    symbol.function.statements)
        [] symbol.kind = "There" -> EvalCall(p, symbol.module_id, symbol.key, args)
        [] symbol.kind = "Flat" -> FlatApply(symbol.name, args)

FieldValues == {<<n>> : n \in 0..MaxInput}
ArrayValues == {<<n1, n2>> : n1 \in 0..MaxInput, n2 \in 0..MaxInput}
ValuesOf(ty) == IF ty = FieldElement THEN FieldValues ELSE ArrayValues

\* the inputs of a function with the signature `sig`
InputsOf(sig) ==
    {ins \in [1..Len(sig.inputs) -> FieldValues \cup ArrayValues] :
        \A i \in 1..Len(sig.inputs) : ins[i] \in ValuesOf(sig.inputs[i])}

\* ---------------------------------------------------------------- C1
\* C1: for a valid program, the main returned by inline evaluates to the
\* return values of the original main on every input.  Stated for the
\* programs the claim singles out: main takes field elements and every call
\* was inlined, so that only renaming stands between the two programs
C1_SemanticEquivalence ==
    (/\ Returned
     /\ program \in ValidPrograms
     /\ RemainingCalls(OutputMain) = {}
     /\ \A i \in 1..Len(main_key.signature.inputs) :
            main_key.signature.inputs[i] = FieldElement)
    => \A ins \in InputsOf(main_key.signature) :
          EvalCall(output, output.main, main_key, ins) =
              EvalCall(program, program.main, main_key, ins)

\* ---------------------------------------------------------------- C2
\* C2: whenever try_inline_call has resolved a Remote (There) symbol and
\* returned, with Ok or with Err, the module cursor is the one it was when
\* the call was made
C2_CursorRestoredOnBothOutcomes ==
    \A ev \in Events :
        ev.kind = "There" /\ ev.outcome \in {"Ok", "Err"} => ev.after = ev.before

\* ---------------------------------------------------------------- C3
\* C3: every call that remains in the main returned carries a key that the
\* output module binds to one of the two Primitive helpers
C3_PrimitiveOnlyResidue ==
    Returned =>
        \A k \in RemainingCalls(OutputMain) :
            /\ k \in DOMAIN OutputModule.functions
            /\ OutputModule.functions[k] \in {split, sha_round}

\* ---------------------------------------------------------------- C4
\* C4: no two binding occurrences of the main returned (parameters,
\* Definition assignees, MultipleDefinition targets) have the same name
C4_GlobalFreshness ==
    Returned =>
        LET bs == Bindings(OutputMain)
        IN \A i, j \in 1..Len(bs) : i # j => bs[i] # bs[j]

\* a program is returned in which one callee was expanded at two call sites,
\* one of them reached through a Remote link, and six names were bound
C4_Witness ==
    /\ Returned
    /\ Len(Bindings(OutputMain)) >= 6
    /\ \E i, j \in 1..Len(inliner.trace) :
          /\ i < j
          /\ inliner.trace[i].kind = "Here" /\ inliner.trace[j].kind = "Here"
          /\ inliner.trace[i].key = inliner.trace[j].key
    /\ \E ev \in Events : ev.kind = "There" /\ ev.outcome = "Ok"

\* ---------------------------------------------------------------- C5
\* C5: every variable a statement of the main returned reads is a parameter
\* of that main or is bound by a statement strictly earlier in the sequence
C5_DefBeforeUse ==
    Returned =>
        LET f == OutputMain
            params == {f.arguments[i].id.id : i \in 1..Len(f.arguments)}
        IN \A i \in 1..Len(f.statements) :
              StatementReads(f.statements[i]) \subseteq
                  params \cup Range(StatementsBind(SubSeq(f.statements, 1, i - 1)))

\* ---------------------------------------------------------------- C6
\* C6: the program returned has exactly one module and its entry
\* identifier names that module
C6_SingleModule ==
    Returned =>
        /\ Cardinality(DOMAIN output.modules) = 1
        /\ output.main \in DOMAIN output.modules

\* a program with five modules whose entry module is not called "main" is inlined
C6_Witness ==
    /\ Returned
    /\ program.main # "main"
    /\ Cardinality(DOMAIN program.modules) >= 5

\* ---------------------------------------------------------------- C7
\* C7: the output module holds exactly three functions: the rewritten main
\* under the key main had in the input and the two Primitive helpers under
\* the keys split and sha256, called or not
C7_ThreeFunctions ==
    Returned =>
        LET fs == OutputModule.functions
        IN /\ DOMAIN fs = {main_key, split_key, sha_round_key}
           /\ Cardinality(DOMAIN fs) = 3
           /\ main_key \in MainKeys(program)
           /\ fs[main_key].kind = "Here"
           /\ fs[main_key].function.signature =
                 program.modules[program.main].functions[main_key].function.signature
           /\ fs[split_key] = split
           /\ fs[sha_round_key] = sha_round

\* a main that calls nothing after inlining is returned from an entry module
\* that holds other Local functions
C7_Witness ==
    /\ Returned
    /\ RemainingCalls(OutputMain) = {}
    /\ \E k \in DOMAIN program.modules[program.main].functions :
          k.id # "main" /\ program.modules[program.main].functions[k].kind = "Here"

\* ---------------------------------------------------------------- C8
\* C8: when try_inline_call resolves a Local callee whose rewritten
\* statement list does not end in exactly one Return, the pass aborts
C8_MalformedCalleeAborts ==
    \A ev \in Events :
        ev.kind = "Here" /\ ~(ev.returns = 1 /\ ev.ends_in_return) => ev.outcome = "panic"

\* ---------------------------------------------------------------- C9
\* C9: when a call's key is absent from the module the cursor names, or a
\* variable is read that the rename table does not bind, or the entry module
\* has no function named main, inline aborts and no program is returned
LookupMiss ==
    \/ \E ev \in Events : ev.kind \in {"None", "Unbound"}
    \/ pc # "start" /\ (program.main \notin DOMAIN program.modules \/ MainKeys(program) = {})

C9_LookupMissIsFatal == LookupMiss => pc = "aborted" /\ output = NoProgram

\* inline aborted on a call whose key the current module does not hold,
\* after it had minted a variable
C9_Witness ==
    /\ pc = "aborted"
    /\ output = NoProgram
    /\ \E ev \in Events : ev.kind = "None" /\ ev.minted > 0

\* --------------------------------------------------------------- C10
\* C10: an invocation of inline returns what the earlier invocations on
\* the same program returned
C10_Determinism ==
    pc \in {"returned", "aborted"} => \A i \in 1..Len(previous) : previous[i] = output

\* --------------------------------------------------------------- C11
\* the call graph: a node is a key of a module; a Local symbol leads to the
\* keys its body calls, in its own module, a Remote symbol to the key it names
Nodes(p) ==
    UNION {{Node(m, k) : k \in DOMAIN p.modules[m].functions} : m \in DOMAIN p.modules}

Callees(p, n) ==
    LET symbol == p.modules[n.module].functions[n.key]
    IN CASE symbol.kind = "Here" ->
                {Node(n.module, k) : k \in RemainingCalls(symbol.function)} \cap Nodes(p)
         [] symbol.kind = "There" -> {Node(symbol.module_id, symbol.key)} \cap Nodes(p)
         [] symbol.kind = "Flat" -> {}

RECURSIVE ReachFrom(_, _)
ReachFrom(p, ns) ==
    LET more == ns \cup UNION {Callees(p, n) : n \in ns}
    IN IF more = ns THEN ns ELSE ReachFrom(p, more)

\* the function `n` reaches itself through calls
OnCycle(p, n) == n \in ReachFrom(p, Callees(p, n))

\* the rewrite of main comes to a function that reaches itself
MainReachesCycle ==
    /\ main_key \in DOMAIN program.modules[program.main].functions
    /\ \E n \in ReachFrom(program, {Node(program.main, main_key)}) : OnCycle(program, n)

\* the number of parameters bound by the Local activations on the stack,
\* the last of which has only been entered
RECURSIVE ParametersOn(_, _)
ParametersOn(p, stack) ==
    IF stack = <<>> THEN 0
    ELSE LET symbol == p.modules[Head(stack).module].functions[Head(stack).key]
         IN (IF symbol.kind = "Here" THEN Len(symbol.function.arguments) ELSE 0)
            + ParametersOn(p, Tail(stack))

\* the earlier activations, still open, of the function entered last
Earlier(stack) == {i \in 1..(Len(stack) - 1) : NodeOf(stack[i]) = NodeOf(Last(stack))}

Diverging == pc = "diverging"

\* how much of main is rewritten, and how much there is to rewrite
Rewritten == Len(arguments) + position
ToRewrite == Len(main.function.arguments) + Len(main.function.statements)

\* what holds in every state: a program is never returned when main comes to
\* a function that reaches itself; the expansion is endless only then, with
\* the function open inside itself; and each Local activation that was
\* expanded has minted one variable per parameter
C11_Safety ==
    /\ Rewritten <= ToRewrite
    /\ Returned => ~MainReachesCycle
    /\ Diverging => /\ MainReachesCycle
                    /\ output = NoProgram
                    /\ Cardinality(Earlier(inliner.stack)) = MaxRepeats
                    /\ OnCycle(program, NodeOf(Last(inliner.stack)))
                    /\ inliner.next_var_idx >=
                          ParametersOn(program, SubSeq(inliner.stack, 1, Len(inliner.stack) - 1))

\* a step of the rewrite of main rewrites one more parameter or statement of
\* main, or ends the rewrite; an expansion that never completes stays so
C11_Progress ==
    /\ pc = "fold" => pc' # "fold" \/ Rewritten' = Rewritten + 1
    /\ Diverging => Diverging'

Inlined == {ev \in Events : ev.kind = "Here" /\ ev.outcome = "Ok"}

\* the name minted when the counter is k
Minted(k) == "_" \o to_string(k)

MintedBefore(k) == {Minted(j) : j \in 0..(k - 1)}

\* the calls in the body of a callee
BodyCalls(ev) == UNION {StatementCalls(ev.body[i]) : i \in 1..Len(ev.body)}

\* what inlining a Local callee with n parameters and n arguments adds to the
\* pending buffer: first n Definitions, the i-th binding the variable minted
\* for the i-th parameter to the i-th argument, which reads only variables
\* minted before the call; then the statements of the body
BindsArguments(ev) ==
    LET n == Len(ev.params)
        was == Len(ev.buffer_before)
    IN /\ Len(ev.buffer_after) >= was + n
       /\ SubSeq(ev.buffer_after, 1, was) = ev.buffer_before
       /\ \A i \in 1..n :
             /\ ev.buffer_after[was + i] =
                   Definition(AssigneeIdentifier([id |-> Minted(ev.minted_before + i - 1),
                                                  ty |-> ev.params[i].id.ty]),
                              ev.args[i])
             /\ ExprReads(ev.args[i]) \subseteq MintedBefore(ev.minted_before)
       /\ BodyCalls(ev) = {} =>
             Len(ev.buffer_after) = was + n + Len(partition_not_return(ev.body))

OnlyReturns(ev) == ev.params = <<>> /\ Len(ev.body) = 1 /\ IsReturn(ev.body[1])

\* C12 (as amended): inlining a Local callee with n parameters and n
\* arguments emits exactly n argument-binding Definitions, in parameter
\* order, each binding a freshly minted variable to the argument as the
\* caller rewrote it, before every statement of the callee's body; a callee
\* with no parameters and a body of a single Return that contains no call
\* emits no statement at all
C12_ArgumentBindings ==
    \A ev \in Inlined :
        Len(ev.params) = Len(ev.args) =>
            /\ BindsArguments(ev)
            /\ OnlyReturns(ev) /\ BodyCalls(ev) = {} => ev.buffer_after = ev.buffer_before

\* a callee with two parameters is inlined while statements of a call in its
\* arguments are pending, and so is a callee without parameters
C12_Witness ==
    /\ Returned
    /\ \E ev \in Inlined :
          Len(ev.params) = 2 /\ Len(ev.args) = 2 /\ ev.buffer_before # <<>> /\ ev.minted_before > 0
    /\ \E ev \in Events : ev.kind = "There" /\ ev.outcome = "Ok" /\ Len(ev.args) = 2

\* C12 (as stated): the same, and a callee with no parameters and a body of
\* a single Return emits no statement at all
C12_SingleReturnEmitsNothing ==
    \A ev \in Inlined :
        Len(ev.params) = Len(ev.args) =>
            /\ BindsArguments(ev)
            /\ OnlyReturns(ev) => ev.buffer_after = ev.buffer_before

\* --------------------------------------------------------------- C13
\* the activations of try_inline_call (not the reads of unbound variables)
Calls == {ev \in Events : ev.kind \in {"Here", "There", "Flat", "None"}}

SymbolOf(activation) == program.modules[activation.module].functions[activation.key]

\* the call is in the body of a Local function that is being inlined
InBody(ev) == ev.stack # <<>> /\ SymbolOf(Last(ev.stack)).kind = "Here"

\* the call is the one a Remote link stands for
Linked(ev) == ev.stack # <<>> /\ SymbolOf(Last(ev.stack)).kind = "There"

\* some enclosing activation followed a Remote link
ThroughLink(ev) == \E i \in 1..Len(ev.stack) : SymbolOf(ev.stack[i]).kind = "There"

\* the calls made earlier from the same body, or from main, were inlined
EarlierInlined(ev) ==
    \A i \in 1..Len(inliner.trace) :
        (inliner.trace[i].stack = ev.stack /\ inliner.trace[i].minted <= ev.minted_before)
            => inliner.trace[i].outcome = "Ok"

\* return id(id(a)), id being the main of the module "id"
NestedId == <<Return(<<FunctionCall(key_id, <<FunctionCall(key_id, <<a>>)>>)>>)>>

\* C13: a call in a body reached through a Remote link is looked up in the
\* module that holds the body, the call a Remote link stands for in the module
\* the link names, and a call of main, once the calls before it have been
\* inlined, in the entry module; id(id(a)) through a Remote link is rewritten
\* to _1 = _0; _2 = _1; return _2
C13_CrossModuleResolution ==
    /\ \A ev \in Calls :
          /\ InBody(ev) /\ ThroughLink(ev) => ev.before = Last(ev.stack).module
          /\ Linked(ev) => ev.before = SymbolOf(Last(ev.stack)).module_id
                           /\ ev.key = SymbolOf(Last(ev.stack)).key
          /\ ev.stack = <<>> /\ EarlierInlined(ev) => ev.before = program.main
    /\ Returned /\ program \in ValidPrograms /\ main.function.statements = NestedId =>
          statements =
            <<Definition(AssigneeIdentifier(field_element("_1")), Identifier("_0")),
              Definition(AssigneeIdentifier(field_element("_2")), Identifier("_1")),
              Return(<<Identifier("_2")>>)>>

\* --------------------------------------------------------------- C14
\* a sequence without the earlier occurrences of its repeated elements
RECURSIVE Dedup(_)
Dedup(q) ==
    IF q = <<>> THEN <<>>
    ELSE IF Head(q) \in Range(Tail(q)) THEN Dedup(Tail(q))
    ELSE <<Head(q)>> \o Dedup(Tail(q))

\* The statements given to the pending buffer so far, each once, in the
\* order in which they were given to it.  A statement that the rewrite of a
\* callee's statement drains (line 203) is given to the buffer again with the
\* callee's other statements (line 115): it counts where it was given last.
Buffered == Dedup(inliner.pushed)

\* one statement of main has been rewritten by this step
RewritesStatement == pc = "fold" /\ pc' = "fold" /\ position' = position + 1

\* what a step that rewrites a statement of main appends to the output: the
\* statements buffered during the step, each once and in the order they
\* were buffered, and right after them what the statement was rewritten to
C14_Emitted ==
    RewritesStatement =>
        LET new == SubSeq(Buffered', Len(Buffered) + 1, Len(Buffered'))
            from == Len(statements) + Len(new)
        IN /\ SubSeq(Buffered', 1, Len(Buffered)) = Buffered
           /\ SubSeq(statements', 1, Len(statements)) = statements
           /\ SubSeq(statements', Len(statements) + 1, from) = new
           /\ Len(statements') > from
           /\ \A i \in (from + 1)..Len(statements') : statements'[i] \notin Range(Buffered')

\* C14: the statements added to the pending buffer while a statement is
\* rewritten are emitted exactly once each, in the order they were buffered,
\* immediately before the rewritten statement; the pending buffer is empty
\* whenever fold_statement has returned to the rewrite of main and when
\* inline returns
C14_StatementBuffering ==
    /\ [](pc \in {"fold", "returned"} => inliner.statement_buffer = <<>>)
    /\ [][C14_Emitted]_vars
    /\ [](Returned =>
            \A i \in 1..Len(Buffered) :
                Cardinality({j \in 1..Len(statements) : statements[j] = Buffered[i]}) = 1)

\* a program is returned after a call in an argument of another call was
\* inlined: statements were given to the buffer again after being drained
C14_Witness ==
    /\ Returned
    /\ Len(inliner.pushed) > Len(Buffered)
    /\ Len(Buffered) >= 4
    /\ \E ev \in Inlined : ev.buffer_before # <<>>

\* --------------------------------------------------------------- C15
Sites == Range(inliner.sites)

\* the MultipleDefinitions whose call was inlined
InlinedSites == {site \in Sites : site.ok}

\* the variable minted for the i-th target of a MultipleDefinition
Target(site, i) ==
    [id |-> "_" \o to_string(site.minted + i - 1), ty |-> site.statement.variables[i].ty]

\* the statements of main rewritten so far that come after the statement s
LaterStatements(s) ==
    LET at == CHOOSE j \in 1..position : main.function.statements[j] = s
    IN SubSeq(main.function.statements, at + 1, position)

\* C15: a MultipleDefinition whose call is inlined is replaced by one
\* Definition per target, the i-th binding a freshly minted variable for the
\* i-th target to the i-th value the callee returned, with no
\* MultipleDefinition and no call of the callee left; and as long as main does
\* not assign a target again, reads of it resolve to its minted variable
C15_MultipleDefinitionInlined ==
    \A site \in InlinedSites :
        LET targets == site.statement.variables
        IN /\ Len(site.values) = Len(targets)
           /\ site.folded = [i \in 1..Len(targets) |->
                                Definition(AssigneeIdentifier(Target(site, i)), site.values[i])]
           /\ \A i \in 1..Len(site.folded) :
                 site.statement.key \notin StatementCalls(site.folded[i])
           /\ (pc = "fold" /\ site.depth = 0) =>
                 \A i \in 1..Len(targets) :
                     targets[i].id \notin Range(StatementsBind(LaterStatements(site.statement)))
                        => /\ bimap_contains_left(inliner.bijection, targets[i])
                           /\ bimap_get_by_left(inliner.bijection, targets[i]) = Target(site, i)

\* --------------------------------------------------------------- C16
RECURSIVE ExprCallNodes(_)
RECURSIVE ExprsCallNodes(_)
\* the call nodes that occur in an expression: key and arguments
ExprCallNodes(e) ==
    CASE e.tag \in {"Number", "Identifier", "ArrayIdentifier"} -> {}
      [] e.tag \in {"Add", "Mult"} -> ExprCallNodes(e.l) \cup ExprCallNodes(e.r)
      [] e.tag = "Select" -> ExprCallNodes(e.array) \cup ExprCallNodes(e.index)
      [] e.tag \in {"FunctionCall", "ArrayFunctionCall"} ->
            {[key |-> e.key, args |-> e.args]} \cup ExprsCallNodes(e.args)
ExprsCallNodes(es) ==
    IF es = <<>> THEN {} ELSE ExprCallNodes(Head(es)) \cup ExprsCallNodes(Tail(es))

RECURSIVE AssigneeCallNodes(_)
AssigneeCallNodes(x) ==
    IF x.tag = "Identifier" THEN {}
    ELSE AssigneeCallNodes(x.a) \cup ExprCallNodes(x.index)

StatementCallNodes(s) ==
    CASE s.tag = "Return" -> ExprsCallNodes(s.exprs)
      [] s.tag = "Definition" -> AssigneeCallNodes(s.a) \cup ExprCallNodes(s.e)
      [] s.tag = "MultipleDefinition" ->
            {[key |-> s.key, args |-> s.args]} \cup ExprsCallNodes(s.args)

\* the activations of try_inline_call that found a Primitive, at once or at
\* the end of Remote links
NotInlined == {ev \in Events : ev.outcome = "Err"}

\* the activations called by the rewrite of an expression or a statement,
\* and not by try_inline_call following a Remote link
CalledByRewrite(ev) == ev.stack = <<>> \/ InBody(ev)

\* the MultipleDefinitions whose call was not inlined
ResidualSites == {site \in Sites : ~site.ok}

\* C16: a call that resolves to a Primitive is not inlined: try_inline_call
\* returns the rewritten arguments as they are, adds nothing to the pending
\* buffer and mints nothing; the caller rebuilds the call with the key of the
\* call site and those arguments, and a MultipleDefinition is emitted again
\* as one MultipleDefinition with a fresh variable per target, in order
C16_PrimitiveNotInlined ==
    /\ \A ev \in NotInlined :
          /\ ev.result = ev.args
          /\ ev.buffer_after = ev.buffer_before
          /\ ev.minted = ev.minted_before
    /\ (pc \in {"fold", "returned"}) =>
          \A ev \in NotInlined :
              CalledByRewrite(ev) =>
                  \E i \in 1..Len(statements) :
                      [key |-> ev.key, args |-> ev.result] \in StatementCallNodes(statements[i])
    /\ \A site \in ResidualSites :
          LET targets == site.statement.variables
          IN /\ site.folded =
                    <<MultipleDefinition([i \in 1..Len(targets) |-> Target(site, i)],
                                         site.statement.key, site.values,
                                         site.statement.types)>>
             /\ \E ev \in NotInlined :
                   /\ CalledByRewrite(ev)
                   /\ ev.key = site.statement.key
                   /\ ev.result = site.values
                   /\ ev.minted = site.minted

\* a program was returned in which the call of a MultipleDefinition reached
\* a Primitive through a Remote link and a call in an expression found one
C16_Witness ==
    /\ Returned
    /\ ResidualSites # {}
    /\ \E ev \in NotInlined : ev.kind = "There" /\ ev.key = split_key
    /\ \E ev \in NotInlined : CalledByRewrite(ev) /\ ev.key = sha_round_key

\* --------------------------------------------------------------- C17
Mints == inliner.mints

\* the parameters of main as inline leaves them: the i-th renamed to the
\* (i-1)-th minted name, type and visibility as they were
RenamedParameters(params) ==
    [i \in 1..Len(params) |->
        Parameter([id |-> Minted(i - 1), ty |-> params[i].id.ty], params[i].private)]

\* the counter counts the calls of use_variable, and the k-th of them
\* (from 0) mints _k with the type of the variable it replaces
C17_Counter ==
    /\ pc = "start" => inliner.next_var_idx = 0
    /\ Len(Mints) = inliner.next_var_idx
    /\ \A k \in 0..(Len(Mints) - 1) :
          /\ Mints[k + 1].counter = k
          /\ Mints[k + 1].next = k + 1
          /\ Mints[k + 1].to = [id |-> Minted(k), ty |-> Mints[k + 1].from.ty]

\* the parameters of main are minted first
C17_Parameters ==
    LET params == main.function.arguments
        n == Len(params)
    IN /\ pc = "fold" =>
            /\ arguments = SubSeq(RenamedParameters(params), 1, Len(arguments))
            /\ \A i \in 1..Len(arguments) : Mints[i].from = params[i].id
            /\ Len(arguments) < n => Len(Mints) = Len(arguments)
       /\ Returned =>
            /\ OutputMain.arguments = RenamedParameters(params)
            /\ Range(StatementsBind(OutputMain.statements)) \subseteq
                    {Mints[k + 1].to.id : k \in n..(Len(Mints) - 1)}
            /\ Range(StatementsBind(OutputMain.statements)) \cap MintedBefore(n) = {}

\* within one invocation of inline the counter never decreases
C17_Monotonic ==
    pc' # "start" =>
        /\ inliner'.next_var_idx >= inliner.next_var_idx
        /\ SubSeq(inliner'.mints, 1, Len(Mints)) = Mints

\* C17: the counter starts at 0, never decreases and grows by one for each
\* minted variable; the k-th minted variable is _k and has the type of the
\* variable it replaces; the parameters of main are minted first, so they
\* are _0 .. _(n-1) in order with their visibility unchanged, and every later
\* binding has an index of n or more
C17_FreshnessCounter == [](C17_Counter /\ C17_Parameters) /\ [][C17_Monotonic]_vars

\* a program with a public array parameter was returned after arrays were
\* minted for an assignment of main and for a parameter of a callee
C17_Witness ==
    /\ Returned
    /\ \E i \in 1..Len(OutputMain.arguments) : ~OutputMain.arguments[i].private
    /\ \E k \in 1..(Len(Mints) - 1) :
          Mints[k + 1].to.ty = FieldElementArray /\ Mints[k + 1].from.id = "a"
    /\ \E k \in 1..(Len(Mints) - 1) :
          Mints[k + 1].to.ty = FieldElementArray /\ Mints[k + 1].from.id = "v"
    /\ StatementsBind(OutputMain.statements) # <<>>

\* --------------------------------------------------------------- C18
Assignments == Range(inliner.assigned)

Indexed == {x \in Assignments : x.assignee.tag = "ArrayElement"}

\* the last variable minted for the variable v
Newest(v) ==
    LET last == CHOOSE k \in 1..Len(Mints) :
                    /\ Mints[k].from = v
                    /\ \A j \in (k + 1)..Len(Mints) : Mints[j].from # v
    IN Mints[last].to

RECURSIVE Renamed(_, _)
\* an expression without calls, its variables replaced as the table says
Renamed(bijection, e) ==
    CASE e.tag = "Number" -> e
      [] e.tag = "Identifier" ->
            Identifier(bimap_get_by_left(bijection, field_element(e.id)).id)
      [] e.tag = "ArrayIdentifier" ->
            ArrayIdentifier(e.size, bimap_get_by_left(bijection, field_array(e.id, e.size)).id)
      [] e.tag \in {"Add", "Mult"} ->
            [e EXCEPT !.l = Renamed(bijection, e.l), !.r = Renamed(bijection, e.r)]
      [] e.tag = "Select" ->
            [e EXCEPT !.array = Renamed(bijection, e.array),
                      !.index = Renamed(bijection, e.index)]

\* the names a callee declares: its parameters and what its body assigns
Declared(ev) ==
    {ev.params[i].id.id : i \in 1..Len(ev.params)} \cup Range(StatementsBind(ev.body))

\* rewriting an assignee mints one variable for its base identifier, puts it
\* in place of the identifier and binds the identifier to it
MintsBase(x) ==
    LET v == AssigneeVariable(x.assignee)
        fresh == [id |-> Minted(x.counter), ty |-> v.ty]
    IN /\ x.based = x.counter + 1
       /\ Mints[x.counter + 1].from = v
       /\ Mints[x.counter + 1].to = fresh
       /\ AssigneeVariable(x.rewritten) = fresh
       /\ x.rewritten.tag = x.assignee.tag
       /\ bimap_get_by_left(x.bijection, v) = fresh
       /\ Cardinality({pair \in x.bijection : pair[1] = v}) = 1

\* reads of a variable resolve to the variable minted for it last
ReadsNewest ==
    /\ {pair[1] : pair \in inliner.bijection} = {Mints[k].from : k \in 1..Len(Mints)}
    /\ \A pair \in inliner.bijection : pair[2] = Newest(pair[1])

\* an index without calls is rewritten by looking its variables up
IndexIsRead(x) ==
    ExprCalls(x.assignee.index) = {} =>
        x.rewritten.index = Renamed(x.bijection, x.assignee.index)

\* what the rewrite of an index mints are parameters and locals of callees
\* of the calls inside the index that were inlined
IndexMintsForCallees(x) ==
    \A k \in x.based..(x.indexed - 1) :
        \E j \in (x.calls_before + 1)..x.calls_after :
            LET ev == inliner.trace[j]
            IN /\ ev \in Inlined
               /\ k \in ev.minted_before..(ev.minted - 1)
               /\ Mints[k + 1].from.id \in Declared(ev)

\* C18 as amended: rewriting an identifier assignee always mints a variable
\* and binds the original to it, so that reads resolve to the newest minted
\* variable; an indexed assignee mints for its base in the same way; its
\* index is rewritten as a read, and nothing is minted for it but the
\* parameters and locals of the callees of calls in it that are inlined
C18_AssigneeRewrite ==
    /\ \A x \in Assignments : MintsBase(x)
    /\ ReadsNewest
    /\ \A x \in Indexed : IndexIsRead(x) /\ IndexMintsForCallees(x)

\* an indexed assignee whose index holds an inlined call was rewritten, and
\* so was the identifier assignee that binds the parameter of the callee
C18_Witness ==
    /\ pc = "fold"
    /\ \E x \in Indexed : x.indexed > x.based
    /\ \E x \in Assignments : x.assignee.tag = "Identifier" /\ x.counter > 0

\* C18 as stated: the rewrite of the index of an assignee mints nothing
C18_IndexMintsNothing ==
    /\ \A x \in Assignments : MintsBase(x)
    /\ ReadsNewest
    /\ \A x \in Indexed : IndexIsRead(x) /\ x.indexed = x.based

\* --------------------------------------------------------------- C19
\* C19: inlining a Local callee leaves the caller's bindings as they were:
\* every variable bound in the rename table when try_inline_call was invoked
\* is mapped to the same fresh variable when it returns, also when the callee
\* has a parameter or a local of the same name and type
C19_CallerBindingsKept ==
    \A ev \in Inlined :
        \A pair \in ev.bijection_before :
            /\ bimap_contains_left(ev.bijection_after, pair[1])
            /\ bimap_get_by_left(ev.bijection_after, pair[1]) = pair[2]

====
